---- MODULE Spec2Model ----
(***************************************************************************)
(* A model of qa/squad_2_0_eval.py, the SQuAD 2.0 evaluation script:       *)
(* text normalisation, exact-match and F1 scoring, the no-answer           *)
(* threshold, the summaries, the best-threshold sweep and the              *)
(* precision-recall analysis.                                              *)
(*                                                                         *)
(* Strings are sequences of one-character strings.  Python dicts are       *)
(* functions; numbers (int and float alike) are exact rationals <<n, d>>   *)
(* in lowest terms with d > 0, so 1 and 1.0 are the same value, as they    *)
(* are under Python's ==.  A raised exception is the value Raised(name).   *)
(***************************************************************************)
EXTENDS Integers, Sequences, FiniteSets, TLC

(***************************************************************************)
(* Bounds of the model.                                                    *)
(***************************************************************************)
\* longest gold / predicted string of the pairwise-scorer specification
MaxLen == 3
\* number of question ids of the dataset-level specifications
NumQ == 3

(***************************************************************************)
(* Rational arithmetic.                                                    *)
(***************************************************************************)
Abs(n) == IF n < 0 THEN -n ELSE n

RECURSIVE GCD(_, _)
GCD(a, b) == IF b = 0 THEN a ELSE GCD(b, a % b)

Rat(n, d) == LET s == IF d < 0 THEN -1 ELSE 1
                 g == GCD(Abs(n), Abs(d))
             IN  <<(s * n) \div g, (s * d) \div g>>

Zero == <<0, 1>>
One == <<1, 1>>
Hundred == <<100, 1>>
Int2Rat(n) == <<n, 1>>

RAdd(a, b) == Rat(a[1] * b[2] + b[1] * a[2], a[2] * b[2])
RSub(a, b) == Rat(a[1] * b[2] - b[1] * a[2], a[2] * b[2])
RMul(a, b) == Rat(a[1] * b[1], a[2] * b[2])
\* defined for b # 0 only: the callers raise ZeroDivisionError before using it
RDiv(a, b) == Rat(a[1] * b[2], a[2] * b[1])
RLt(a, b) == a[1] * b[2] < b[1] * a[2]
RLe(a, b) == a[1] * b[2] <= b[1] * a[2]
RGt(a, b) == RLt(b, a)
RMax(a, b) == IF RLt(a, b) THEN b ELSE a

(***************************************************************************)
(* What a call gives: Ok(v) when it returns v, Raised(e) when it raises    *)
(* the exception named e.                                                  *)
(***************************************************************************)
Ok(v) == [raised |-> "", value |-> v]
Raised(e) == [raised |-> e, value |-> <<>>]
IsRaised(r) == r.raised # ""

(***************************************************************************)
(* Characters.                                                             *)
(***************************************************************************)
\* string.punctuation (less the grave accent, which a TLA+ string cannot hold)
Punctuation ==
    {"!", "\"", "#", "$", "%", "&", "'", "(", ")", "*", "+", ",", "-", ".",
     "/", ":", ";", "<", "=", ">", "?", "@", "[", "\\", "]", "^", "_",
     "{", "|", "}", "~"}

\* the characters str.split() and the regex class \s take as white space
Whitespace == {" ", "\t", "\n", "\r"}

UpperCase == <<"A", "B", "C", "D", "E", "F", "G", "H", "I", "J", "K", "L", "M",
               "N", "O", "P", "Q", "R", "S", "T", "U", "V", "W", "X", "Y", "Z">>
LowerCase == <<"a", "b", "c", "d", "e", "f", "g", "h", "i", "j", "k", "l", "m",
               "n", "o", "p", "q", "r", "s", "t", "u", "v", "w", "x", "y", "z">>
Digits == {"0", "1", "2", "3", "4", "5", "6", "7", "8", "9"}

Range(f) == {f[x] : x \in DOMAIN f}

UpperChars == Range(UpperCase)
WordChars == Range(UpperCase) \cup Range(LowerCase) \cup Digits \cup {"_"}

\* a character of the regex class \w
IsWordChar(ch) == ch \in WordChars

LowerChar(ch) ==
    IF ch \in UpperChars
    THEN LowerCase[CHOOSE k \in DOMAIN UpperCase : UpperCase[k] = ch]
    ELSE ch

(***************************************************************************)
(* normalize_answer and its four helpers.                                  *)
(***************************************************************************)
lower(text) == [k \in 1..Len(text) |-> LowerChar(text[k])]

remove_punc(text) == SelectSeq(text, LAMBDA ch : ch \notin Punctuation)

\* the alternatives of the regex \b(a|an|the)\b, in the order it tries them
Articles == << <<"a">>, <<"a", "n">>, <<"t", "h", "e">> >>

\* \b at offset p of text: between text[p] and text[p+1]
WordBoundary(text, p) ==
    LET before == p >= 1 /\ p <= Len(text) /\ IsWordChar(text[p])
        after == p + 1 >= 1 /\ p + 1 <= Len(text) /\ IsWordChar(text[p + 1])
    IN  before # after

\* alternative art matches at index k of text, with \b on both sides
ArticleAt(text, k, art) ==
    /\ k + Len(art) - 1 <= Len(text)
    /\ SubSeq(text, k, k + Len(art) - 1) = art
    /\ WordBoundary(text, k - 1)
    /\ WordBoundary(text, k + Len(art) - 1)

RECURSIVE SubArticles(_, _)
SubArticles(text, k) ==
    IF k > Len(text) THEN <<>>
    ELSE LET hits == {a \in DOMAIN Articles : ArticleAt(text, k, Articles[a])}
         IN  IF hits = {} THEN <<text[k]>> \o SubArticles(text, k + 1)
             ELSE LET first == CHOOSE a \in hits : \A b \in hits : a <= b
                  IN  <<" ">> \o SubArticles(text, k + Len(Articles[first]))

remove_articles(text) == SubArticles(text, 1)

\* str.split(): the maximal runs of non-white-space characters
RECURSIVE SplitFrom(_, _, _)
SplitFrom(text, k, word) ==
    IF k > Len(text) THEN (IF word = <<>> THEN <<>> ELSE <<word>>)
    ELSE IF text[k] \in Whitespace
         THEN (IF word = <<>> THEN <<>> ELSE <<word>>) \o SplitFrom(text, k + 1, <<>>)
         ELSE SplitFrom(text, k + 1, Append(word, text[k]))

split(text) == SplitFrom(text, 1, <<>>)

\* " ".join(words)
RECURSIVE Join(_)
Join(words) ==
    IF words = <<>> THEN <<>>
    ELSE IF Len(words) = 1 THEN words[1]
    ELSE words[1] \o <<" ">> \o Join(Tail(words))

white_space_fix(text) == Join(split(text))

normalize_answer(s) == white_space_fix(remove_articles(remove_punc(lower(s))))

get_tokens(s) == IF s = <<>> THEN <<>> ELSE split(normalize_answer(s))

compute_exact(a_g, a_p) == IF normalize_answer(a_g) = normalize_answer(a_p) THEN One ELSE Zero

(***************************************************************************)
(* compute_f1.  The value is returned together with the return statement   *)
(* that produced it: "empty" (line 61), "nosame" (line 63) or "harmonic"   *)
(* (line 67), and the token sequences it was computed from.                *)
(***************************************************************************)
Count(toks, t) == Cardinality({k \in DOMAIN toks : toks[k] = t})

Min(a, b) == IF a < b THEN a ELSE b

RECURSIVE SumOver(_, _)
\* the sum of f[x] for x in S
SumOver(S, f) ==
    IF S = {} THEN 0
    ELSE LET x == CHOOSE y \in S : TRUE IN f[x] + SumOver(S \ {x}, f)

\* sum((Counter(gold_toks) & Counter(pred_toks)).values())
NumSame(gold_toks, pred_toks) ==
    LET common == [t \in Range(gold_toks) \cap Range(pred_toks) |->
                      Min(Count(gold_toks, t), Count(pred_toks, t))]
    IN  SumOver(DOMAIN common, common)

\* compute_f1 without lines 59-61, as the SQuAD 1.1 script has it
compute_f1_no_empty_case(a_g, a_p) ==
    LET gold_toks == get_tokens(a_g)
        pred_toks == get_tokens(a_p)
        num_same == NumSame(gold_toks, pred_toks)
    IN  IF num_same = 0
        THEN [value |-> Zero, path |-> "nosame",
              gold_toks |-> gold_toks, pred_toks |-> pred_toks]
        ELSE LET precision == Rat(num_same, Len(pred_toks))
                 recall == Rat(num_same, Len(gold_toks))
             IN  [value |-> RDiv(RMul(Int2Rat(2), RMul(precision, recall)),
                                 RAdd(precision, recall)),
                  path |-> "harmonic",
                  gold_toks |-> gold_toks, pred_toks |-> pred_toks]

compute_f1(a_g, a_p) ==
    LET gold_toks == get_tokens(a_g)
        pred_toks == get_tokens(a_p)
        num_same == NumSame(gold_toks, pred_toks)
    IN  IF Len(gold_toks) = 0 \/ Len(pred_toks) = 0
        THEN [value |-> IF gold_toks = pred_toks THEN One ELSE Zero, path |-> "empty",
              gold_toks |-> gold_toks, pred_toks |-> pred_toks]
        ELSE IF num_same = 0
        THEN [value |-> Zero, path |-> "nosame",
              gold_toks |-> gold_toks, pred_toks |-> pred_toks]
        ELSE LET precision == Rat(num_same, Len(pred_toks))
                 recall == Rat(num_same, Len(gold_toks))
             IN  [value |-> RDiv(RMul(Int2Rat(2), RMul(precision, recall)),
                                 RAdd(precision, recall)),
                  path |-> "harmonic",
                  gold_toks |-> gold_toks, pred_toks |-> pred_toks]


(***************************************************************************)
(* The dataset-level inputs.  A dataset is a function from the ids of its  *)
(* questions to each question's list of gold answer texts; qas are visited *)
(* in ascending id.  dicts iterate in insertion order, which for na_probs  *)
(* is ascending id too (ids are numbered in that order).                   *)
(***************************************************************************)
QIDS == 1..NumQ

Str_empty == <<>>
Str_the == <<"t", "h", "e">>
Str_x == <<"x">>
Str_x_y == <<"x", " ", "y">>
Str_The_x == <<"T", "h", "e", " ", "x", ".">>
Str_y_z == <<"y", " ", "z">>

\* qa["answers"] of a question, as the list of its texts
AnswerLists == {<<>>, <<Str_The_x, Str_y_z>>}
PredTexts == {Str_empty, Str_the, Str_x, Str_x_y}
ProbValues == {Zero, <<1, 2>>, One}

\* the dicts with keys among S and values among V
Dicts(S, V) == UNION {[D -> V] : D \in SUBSET S}

RECURSIVE SetToSeq(_)
\* the ids of S in ascending order
SetToSeq(S) ==
    IF S = {} THEN <<>>
    ELSE LET m == CHOOSE q \in S : \A r \in S : q <= r IN <<m>> \o SetToSeq(S \ {m})

RECURSIVE RSum(_, _)
\* sum(f[q] for q in S)
RSum(S, f) ==
    IF S = {} THEN Zero
    ELSE LET q == CHOOSE r \in S : TRUE IN RAdd(f[q], RSum(S \ {q}, f))

RECURSIVE RSumSeq(_, _)
\* sum(f[k] for k in list)
RSumSeq(list, f) ==
    IF list = <<>> THEN Zero ELSE RAdd(f[Head(list)], RSumSeq(Tail(list), f))

RECURSIVE RMaxSeq(_)
\* max(list), list not empty
RMaxSeq(list) ==
    IF Len(list) = 1 THEN list[1] ELSE RMax(list[1], RMaxSeq(Tail(list)))

make_qid_to_has_ans(ds) == [q \in DOMAIN ds |-> ds[q] # <<>>]

\* lines 76-81: the gold answers a question is scored against
GoldAnswers(answers) ==
    LET kept == SelectSeq(answers, LAMBDA a : normalize_answer(a) # <<>>)
    IN  IF kept = <<>> THEN <<Str_empty>> ELSE kept

\* lines 76-88 for one question: its scores against the prediction a_p
ScoreOf(answers, a_p) ==
    LET gold_answers == GoldAnswers(answers)
    IN  [exact |-> RMaxSeq([k \in 1..Len(gold_answers) |->
                               compute_exact(gold_answers[k], a_p)]),
         f1 |-> RMaxSeq([k \in 1..Len(gold_answers) |->
                            compute_f1(gold_answers[k], a_p).value])]

\* ScoreOf on the answer lists and predictions of the model, computed once
ScoreTable == [answers \in AnswerLists |-> [a_p \in PredTexts |-> ScoreOf(answers, a_p)]]

get_raw_scores(ds, pr) ==
    LET scored == DOMAIN ds \cap DOMAIN pr
    IN  [exact_scores |-> [q \in scored |-> ScoreTable[ds[q]][pr[q]].exact],
         f1_scores |-> [q \in scored |-> ScoreTable[ds[q]][pr[q]].f1]]

\* apply_no_ans_threshold with > read as >=
apply_no_ans_threshold_ge(sc, na, has_ans, thresh) ==
    IF \E q \in DOMAIN sc : q \notin DOMAIN na
         \/ (RLe(thresh, na[q]) /\ q \notin DOMAIN has_ans)
    THEN [scores |-> sc, ret |-> Raised("KeyError")]
    ELSE [scores |-> sc,
          ret |-> Ok([q \in DOMAIN sc |->
                        IF RLe(thresh, na[q])
                        THEN (IF has_ans[q] THEN Zero ELSE One)
                        ELSE sc[q]])]

\* scores: the caller's dict after the call; ret: what the call gives
apply_no_ans_threshold(sc, na, has_ans, thresh) ==
    IF \E q \in DOMAIN sc : q \notin DOMAIN na
         \/ (RGt(na[q], thresh) /\ q \notin DOMAIN has_ans)
    THEN [scores |-> sc, ret |-> Raised("KeyError")]
    ELSE [scores |-> sc,
          ret |-> Ok([q \in DOMAIN sc |->
                        IF RGt(na[q], thresh)
                        THEN (IF has_ans[q] THEN Zero ELSE One)
                        ELSE sc[q]])]

\* an optional qid_list argument: None, or a list of ids
NoList == [given |-> FALSE, ids |-> <<>>]
List(ids) == [given |-> TRUE, ids |-> ids]

EvalDict(exact, f1, total) ==
    [k \in {"exact", "f1", "total"} |->
        IF k = "exact" THEN exact ELSE IF k = "f1" THEN f1 ELSE Int2Rat(total)]

\* make_eval_dict dividing by len(exact_scores) in both branches
make_eval_dict_total_of_map(exact_scores, f1_scores, list) ==
    LET total == Cardinality(DOMAIN exact_scores)
        ids == list.ids
    IN  IF total = 0 THEN Raised("ZeroDivisionError")
        ELSE IF ~list.given \/ ids = <<>>
        THEN Ok(EvalDict(RDiv(RMul(Hundred, RSum(DOMAIN exact_scores, exact_scores)), Int2Rat(total)),
                         RDiv(RMul(Hundred, RSum(DOMAIN f1_scores, f1_scores)), Int2Rat(total)),
                         total))
        ELSE Ok(EvalDict(RDiv(RMul(Hundred, RSumSeq(ids, exact_scores)), Int2Rat(total)),
                         RDiv(RMul(Hundred, RSumSeq(ids, f1_scores)), Int2Rat(total)),
                         total))

make_eval_dict(exact_scores, f1_scores, list) ==
    IF ~list.given \/ list.ids = <<>>
    THEN LET total == Cardinality(DOMAIN exact_scores)
         IN  IF total = 0 THEN Raised("ZeroDivisionError")
             ELSE Ok(EvalDict(
                     RDiv(RMul(Hundred, RSum(DOMAIN exact_scores, exact_scores)), Int2Rat(total)),
                     RDiv(RMul(Hundred, RSum(DOMAIN f1_scores, f1_scores)), Int2Rat(total)),
                     total))
    ELSE LET ids == list.ids
             total == Len(ids)
         IN  IF \E k \in DOMAIN ids : ids[k] \notin DOMAIN exact_scores \cap DOMAIN f1_scores
             THEN Raised("KeyError")
             ELSE Ok(EvalDict(
                     RDiv(RMul(Hundred, RSumSeq(ids, exact_scores)), Int2Rat(total)),
                     RDiv(RMul(Hundred, RSumSeq(ids, f1_scores)), Int2Rat(total)),
                     total))

\* "%s_%s" % (prefix, k)
PrefixKey(prefix, k) == prefix \o "_" \o k

\* main_eval after merge_eval(main_eval, new_eval, prefix)
merge_eval(main_eval, new_eval, prefix) ==
    LET added == {PrefixKey(prefix, k) : k \in DOMAIN new_eval}
    IN  [key \in DOMAIN main_eval \cup added |->
            IF key \in added
            THEN new_eval[CHOOSE k \in DOMAIN new_eval : PrefixKey(prefix, k) = key]
            ELSE main_eval[key]]

(***************************************************************************)
(* sorted(na_probs, key=lambda k: na_probs[k]): a stable sort of the keys  *)
(* in insertion order.                                                     *)
(***************************************************************************)
RECURSIVE SortByProb(_, _)
SortByProb(S, na) ==
    IF S = {} THEN <<>>
    ELSE LET m == CHOOSE q \in S :
                    \A r \in S : RLt(na[q], na[r]) \/ (na[q] = na[r] /\ q <= r)
         IN  <<m>> \o SortByProb(S \ {m}, na)

sorted_by_na_prob(na) == SortByProb(DOMAIN na, na)

(***************************************************************************)
(* make_precision_recall_eval (plotting left out).                         *)
(***************************************************************************)
\* line 158 with the previous recall forgotten
PRArea_no_previous(cur_p, cur_r, last_r) == RMul(cur_p, cur_r)

\* line 158: what one emitted point adds to avg_prec
PRArea(cur_p, cur_r, last_r) == RMul(cur_p, RSub(cur_r, last_r))

RECURSIVE PRLoop(_, _, _, _, _, _, _)
\* lines 151-160 from index k of list (k = i + 1); st holds true_pos, avg_prec
\* and recalls[-1]
PRLoop(sc, na, num_true_pos, has_ans, list, k, st) ==
    IF k > Len(list) THEN Ok(st)
    ELSE LET qid == list[k] IN
         IF qid \notin DOMAIN has_ans THEN Raised("KeyError")
         ELSE IF has_ans[qid] /\ qid \notin DOMAIN sc THEN Raised("KeyError")
         ELSE IF num_true_pos = 0 THEN Raised("ZeroDivisionError")
         ELSE LET true_pos == IF has_ans[qid] THEN RAdd(st.true_pos, sc[qid])
                                             ELSE st.true_pos
                  cur_p == RDiv(true_pos, Int2Rat(k))
                  cur_r == RDiv(true_pos, Int2Rat(num_true_pos))
                  emit == k = Len(list) \/ na[qid] # na[list[k + 1]]
              IN  PRLoop(sc, na, num_true_pos, has_ans, list, k + 1,
                         [true_pos |-> true_pos,
                          avg_prec |-> IF emit
                                       THEN RAdd(st.avg_prec, PRArea(cur_p, cur_r, st.last_recall))
                                       ELSE st.avg_prec,
                          last_recall |-> IF emit THEN cur_r ELSE st.last_recall])

make_precision_recall_eval(sc, na, num_true_pos, has_ans) ==
    LET r == PRLoop(sc, na, num_true_pos, has_ans, sorted_by_na_prob(na), 1,
                    [true_pos |-> Zero, avg_prec |-> Zero, last_recall |-> Zero])
    IN  IF IsRaised(r) THEN r
        ELSE Ok([k \in {"ap"} |-> RMul(Hundred, r.value.avg_prec)])

(***************************************************************************)
(* run_precision_recall_analysis: what the call gives main_eval.           *)
(***************************************************************************)
NumTruePos(has_ans) == Cardinality({q \in DOMAIN has_ans : has_ans[q]})

\* lines 175-202
PRAnalysis(main_eval, ex_raw, f_raw, na, has_ans) ==
    LET num_true_pos == NumTruePos(has_ans)
        pr_exact == make_precision_recall_eval(ex_raw, na, num_true_pos, has_ans)
        pr_f1 == make_precision_recall_eval(f_raw, na, num_true_pos, has_ans)
        oracle_scores == [q \in DOMAIN has_ans |-> IF has_ans[q] THEN One ELSE Zero]
        pr_oracle == make_precision_recall_eval(oracle_scores, na, num_true_pos, has_ans)
    IN  IF IsRaised(pr_exact) THEN pr_exact
        ELSE IF IsRaised(pr_f1) THEN pr_f1
        ELSE IF IsRaised(pr_oracle) THEN pr_oracle
        ELSE Ok(merge_eval(merge_eval(merge_eval(main_eval, pr_exact.value, "pr_exact"),
                                      pr_f1.value, "pr_f1"),
                           pr_oracle.value, "pr_oracle"))

\* run_precision_recall_analysis without lines 172-174
run_precision_recall_analysis_unguarded(main_eval, ex_raw, f_raw, na, has_ans) ==
    PRAnalysis(main_eval, ex_raw, f_raw, na, has_ans)

run_precision_recall_analysis(main_eval, ex_raw, f_raw, na, has_ans) ==
    IF NumTruePos(has_ans) = 0 THEN Ok(main_eval)
    ELSE PRAnalysis(main_eval, ex_raw, f_raw, na, has_ans)

(***************************************************************************)
(* find_best_thresh, line by line.                                         *)
(***************************************************************************)
\* line 206
NumNoAns(has_ans) == Cardinality({q \in DOMAIN has_ans : ~has_ans[q]})

\* lines 214-220: Ok(diff), or KeyError for an id the dicts do not hold
FbtDiff(pr, sc, has_ans, qid) ==
    IF qid \notin DOMAIN has_ans THEN Raised("KeyError")
    ELSE IF has_ans[qid] THEN Ok(sc[qid])
    ELSE IF qid \notin DOMAIN pr THEN Raised("KeyError")
    ELSE IF pr[qid] # Str_empty THEN Ok(Int2Rat(-1))
    ELSE Ok(Zero)

\* line 222 with > read as >=
FbtImproves_ge(cur, best) == RLe(best, cur)

\* line 222
FbtImproves(cur, best) == RGt(cur, best)

(***************************************************************************)
(* State.  pc is the place of the call being made; ret is what a finished  *)
(* call gave.  The other variables are the arguments and locals of the     *)
(* script's functions, under their names.                                  *)
(***************************************************************************)
VARIABLES pc, ret,
          a_gold, a_pred,
          dataset, preds, na_probs, na_probs_file,
          qid_to_has_ans, exact_raw, f1_raw, exact_thresh, f1_thresh, out_eval,
          scores, na_prob_thresh, qid_list, i, cur_score, best_score, best_thresh

vars == <<pc, ret, a_gold, a_pred, dataset, preds, na_probs, na_probs_file,
          qid_to_has_ans, exact_raw, f1_raw, exact_thresh, f1_thresh, out_eval,
          scores, na_prob_thresh, qid_list, i, cur_score, best_score, best_thresh>>

pairVars == <<a_gold, a_pred>>
inputVars == <<dataset, preds, na_probs, na_probs_file>>
evalVars == <<qid_to_has_ans, exact_raw, f1_raw, exact_thresh, f1_thresh, out_eval>>
sweepVars == <<qid_list, i, cur_score, best_score, best_thresh>>

NoRet == Ok(<<>>)

\* variables a specification does not use
IdlePair == a_gold = <<>> /\ a_pred = <<>>
IdleEval == exact_thresh = <<>> /\ f1_thresh = <<>> /\ out_eval = <<>>
IdleSweep ==
    /\ qid_list = NoList /\ i = 0
    /\ cur_score = Zero /\ best_score = Zero /\ best_thresh = Zero

(***************************************************************************)
(* The pairwise scorer: compute_f1 on a pair of strings.                   *)
(***************************************************************************)
Alphabet == {"A", "a", "n", " ", "."}
Strings == UNION {[1..n -> Alphabet] : n \in 0..MaxLen}

InitF1 ==
    /\ pc = "compute_f1" /\ ret = NoRet
    /\ a_gold \in Strings /\ a_pred \in Strings
    /\ dataset = <<>> /\ preds = <<>> /\ na_probs = <<>> /\ na_probs_file = "None"
    /\ qid_to_has_ans = <<>> /\ exact_raw = <<>> /\ f1_raw = <<>>
    /\ scores = <<>> /\ na_prob_thresh = Zero
    /\ IdleEval /\ IdleSweep

ComputeF1 ==
    /\ pc = "compute_f1"
    /\ ret' = Ok(compute_f1(a_gold, a_pred))
    /\ pc' = "returned"
    /\ UNCHANGED <<pairVars, inputVars, evalVars, sweepVars, scores, na_prob_thresh>>

SpecF1 == InitF1 /\ [][ComputeF1]_vars

(***************************************************************************)
(* The dataset-level functions, each called on the scores get_raw_scores   *)
(* gave for a dataset of 0 to NumQ questions and predictions for some of   *)
(* them, and on a no-answer probability for every question.                *)
(***************************************************************************)
Datasets == UNION {[1..n -> AnswerLists] : n \in 0..NumQ}

InitScored ==
    /\ ret = NoRet
    /\ IdlePair
    /\ dataset \in Datasets
    /\ preds \in Dicts(DOMAIN dataset, PredTexts)
    /\ na_probs_file = "na_prob.json"
    /\ qid_to_has_ans = make_qid_to_has_ans(dataset)
    /\ exact_raw = get_raw_scores(dataset, preds).exact_scores
    /\ f1_raw = get_raw_scores(dataset, preds).f1_scores
    /\ na_prob_thresh = Zero
    /\ IdleEval /\ IdleSweep

\* apply_no_ans_threshold(scores, na_probs, qid_to_has_ans, na_prob_thresh)
InitApply ==
    /\ InitScored
    /\ pc = "apply_no_ans_threshold"
    /\ na_probs \in [DOMAIN dataset -> ProbValues]
    /\ scores \in {exact_raw, f1_raw}

ApplyNoAnsThreshold ==
    /\ pc = "apply_no_ans_threshold"
    /\ \E thresh \in ProbValues :
          LET r == apply_no_ans_threshold(scores, na_probs, qid_to_has_ans, thresh)
          IN  /\ na_prob_thresh' = thresh
              /\ scores' = r.scores
              /\ ret' = r.ret
              /\ pc' = IF IsRaised(r.ret) THEN "raised" ELSE "returned"
    /\ UNCHANGED <<pairVars, inputVars, evalVars, sweepVars>>

SpecApply == InitApply /\ [][ApplyNoAnsThreshold]_vars

\* make_eval_dict(exact_raw, f1_raw, qid_list), the id subset drawn from the keys
InitSummary ==
    /\ InitScored
    /\ pc = "make_eval_dict"
    /\ na_probs = [k \in DOMAIN preds |-> Zero]
    /\ scores = <<>>

MakeEvalDict ==
    /\ pc = "make_eval_dict"
    /\ \E list \in {NoList} \cup {List(SetToSeq(S)) : S \in SUBSET DOMAIN exact_raw} :
          /\ qid_list' = list
          /\ ret' = make_eval_dict(exact_raw, f1_raw, list)
          /\ pc' = IF IsRaised(ret') THEN "raised" ELSE "returned"
    /\ UNCHANGED <<pairVars, inputVars, evalVars, scores, na_prob_thresh,
                   i, cur_score, best_score, best_thresh>>

SpecSummary == InitSummary /\ [][MakeEvalDict]_vars

\* make_precision_recall_eval(scores, na_probs, num_true_pos, qid_to_has_ans)
InitPR ==
    /\ InitScored
    /\ pc = "make_precision_recall_eval"
    /\ na_probs \in [DOMAIN dataset -> ProbValues]
    /\ scores \in {exact_raw, f1_raw}

MakePrecisionRecallEval ==
    /\ pc = "make_precision_recall_eval"
    /\ ret' = make_precision_recall_eval(scores, na_probs, NumTruePos(qid_to_has_ans),
                                          qid_to_has_ans)
    /\ pc' = IF IsRaised(ret') THEN "raised" ELSE "returned"
    /\ UNCHANGED <<pairVars, inputVars, evalVars, sweepVars, scores, na_prob_thresh>>

SpecPR == InitPR /\ [][MakePrecisionRecallEval]_vars

(***************************************************************************)
(* find_best_thresh(preds, scores, na_probs, qid_to_has_ans), a step per   *)
(* statement of the loop.                                                  *)
(***************************************************************************)
SweepProbs == {Zero, <<1, 2>>}

InitSweep ==
    /\ InitScored
    /\ pc = "find_best_thresh"
    /\ na_probs \in [DOMAIN dataset -> SweepProbs]
    /\ scores \in {exact_raw, f1_raw}

\* lines 206-210
FindBestThreshStart ==
    /\ pc = "find_best_thresh"
    /\ cur_score' = Int2Rat(NumNoAns(qid_to_has_ans))
    /\ best_score' = Int2Rat(NumNoAns(qid_to_has_ans))
    /\ best_thresh' = Zero
    /\ qid_list' = List(sorted_by_na_prob(na_probs))
    /\ i' = 0
    /\ pc' = "sweep"
    /\ UNCHANGED <<ret, pairVars, inputVars, evalVars, scores, na_prob_thresh>>

\* lines 211-213: an id without a score is passed over
FindBestThreshSkip ==
    /\ pc = "sweep"
    /\ i < Len(qid_list.ids)
    /\ qid_list.ids[i + 1] \notin DOMAIN scores
    /\ i' = i + 1
    /\ UNCHANGED <<pc, ret, pairVars, inputVars, evalVars, scores, na_prob_thresh,
                   qid_list, cur_score, best_score, best_thresh>>

\* lines 211-224 for an id with a score
FindBestThreshStep ==
    /\ pc = "sweep"
    /\ i < Len(qid_list.ids)
    /\ qid_list.ids[i + 1] \in DOMAIN scores
    /\ LET qid == qid_list.ids[i + 1]
           diff == FbtDiff(preds, scores, qid_to_has_ans, qid)
       IN  IF IsRaised(diff)
           THEN /\ pc' = "raised"
                /\ ret' = diff
                /\ UNCHANGED <<i, cur_score, best_score, best_thresh>>
           ELSE LET cur == RAdd(cur_score, diff.value)
                IN  /\ cur_score' = cur
                    /\ best_score' = IF FbtImproves(cur, best_score) THEN cur ELSE best_score
                    /\ best_thresh' = IF FbtImproves(cur, best_score) THEN na_probs[qid]
                                                                     ELSE best_thresh
                    /\ i' = i + 1
                    /\ UNCHANGED <<pc, ret>>
    /\ UNCHANGED <<pairVars, inputVars, evalVars, scores, na_prob_thresh, qid_list>>

\* line 225
FindBestThreshReturn ==
    /\ pc = "sweep"
    /\ i = Len(qid_list.ids)
    /\ IF Cardinality(DOMAIN scores) = 0
       THEN pc' = "raised" /\ ret' = Raised("ZeroDivisionError")
       ELSE /\ pc' = "returned"
            /\ ret' = Ok(<<RDiv(RMul(Hundred, best_score),
                                Int2Rat(Cardinality(DOMAIN scores))),
                           best_thresh>>)
    /\ UNCHANGED <<pairVars, inputVars, evalVars, sweepVars, scores, na_prob_thresh>>

NextSweep ==
    \/ FindBestThreshStart
    \/ FindBestThreshSkip
    \/ FindBestThreshStep
    \/ FindBestThreshReturn

SpecSweep == InitSweep /\ [][NextSweep]_vars

(***************************************************************************)
(* evaluate(dataset_file, prediction_file, na_probs_file), the files       *)
(* already parsed (json.load) and plotting and saving left out.            *)
(***************************************************************************)
HasAnsQids(has_ans) == SetToSeq({k \in DOMAIN has_ans : has_ans[k]})
NoAnsQids(has_ans) == SetToSeq({k \in DOMAIN has_ans : ~has_ans[k]})

InitEval ==
    /\ pc = "evaluate" /\ ret = NoRet
    /\ IdlePair
    /\ dataset \in Dicts(QIDS, AnswerLists)
    /\ preds \in Dicts(QIDS, PredTexts)
    /\ na_probs_file \in {"None", "na_prob.json"}
    \* lines 252-254: what the file held, when one is given
    /\ na_probs = IF na_probs_file = "None" THEN <<>> ELSE [k \in QIDS |-> <<1, 2>>]
    /\ qid_to_has_ans = <<>> /\ exact_raw = <<>> /\ f1_raw = <<>>
    /\ scores = <<>> /\ na_prob_thresh = Zero
    /\ IdleEval /\ IdleSweep

\* lines 256-259
EvaluateSetUp ==
    /\ pc = "evaluate"
    /\ na_probs' = [k \in DOMAIN preds |-> Zero]
    /\ qid_to_has_ans' = make_qid_to_has_ans(dataset)
    /\ pc' = "get_raw_scores"
    /\ UNCHANGED <<ret, pairVars, dataset, preds, na_probs_file, exact_raw, f1_raw,
                   exact_thresh, f1_thresh, out_eval, sweepVars, scores, na_prob_thresh>>

\* line 260
EvaluateRawScores ==
    /\ pc = "get_raw_scores"
    /\ exact_raw' = get_raw_scores(dataset, preds).exact_scores
    /\ f1_raw' = get_raw_scores(dataset, preds).f1_scores
    /\ pc' = "apply_no_ans_threshold"
    /\ UNCHANGED <<ret, pairVars, inputVars, qid_to_has_ans,
                   exact_thresh, f1_thresh, out_eval, sweepVars, scores, na_prob_thresh>>

\* lines 261-262
EvaluateThreshold ==
    /\ pc = "apply_no_ans_threshold"
    /\ LET e == apply_no_ans_threshold(exact_raw, na_probs, qid_to_has_ans, One).ret
           f == apply_no_ans_threshold(f1_raw, na_probs, qid_to_has_ans, One).ret
       IN  IF IsRaised(e) \/ IsRaised(f)
           THEN /\ pc' = "raised"
                /\ ret' = IF IsRaised(e) THEN e ELSE f
                /\ UNCHANGED <<exact_thresh, f1_thresh>>
           ELSE /\ exact_thresh' = e.value
                /\ f1_thresh' = f.value
                /\ pc' = "overall"
                /\ UNCHANGED ret
    /\ UNCHANGED <<pairVars, inputVars, qid_to_has_ans, exact_raw, f1_raw, out_eval,
                   sweepVars, scores, na_prob_thresh>>

\* line 263
EvaluateOverall ==
    /\ pc = "overall"
    /\ LET r == make_eval_dict(exact_thresh, f1_thresh, NoList)
       IN  IF IsRaised(r)
           THEN pc' = "raised" /\ ret' = r /\ UNCHANGED out_eval
           ELSE pc' = "HasAns" /\ out_eval' = r.value /\ UNCHANGED ret
    /\ UNCHANGED <<pairVars, inputVars, qid_to_has_ans, exact_raw, f1_raw,
                   exact_thresh, f1_thresh, sweepVars, scores, na_prob_thresh>>

\* lines 264-266 (prefix "HasAns") and 267-269 (prefix "NoAns")
EvaluateSubset(prefix, qids, next) ==
    /\ pc = prefix
    /\ IF qids = <<>>
       THEN pc' = next /\ UNCHANGED <<ret, out_eval>>
       ELSE LET r == make_eval_dict(exact_thresh, f1_thresh, List(qids))
            IN  IF IsRaised(r)
                THEN pc' = "raised" /\ ret' = r /\ UNCHANGED out_eval
                ELSE /\ pc' = next
                     /\ out_eval' = merge_eval(out_eval, r.value, prefix)
                     /\ UNCHANGED ret
    /\ UNCHANGED <<pairVars, inputVars, qid_to_has_ans, exact_raw, f1_raw,
                   exact_thresh, f1_thresh, sweepVars, scores, na_prob_thresh>>

EvaluateHasAns == EvaluateSubset("HasAns", HasAnsQids(qid_to_has_ans), "NoAns")

EvaluateNoAns == EvaluateSubset("NoAns", NoAnsQids(qid_to_has_ans), "pr_analysis")

\* lines 270-274
EvaluatePRAnalysis ==
    /\ pc = "pr_analysis"
    /\ IF na_probs_file = "None"
       THEN pc' = "return" /\ UNCHANGED <<ret, out_eval>>
       ELSE LET r == run_precision_recall_analysis(out_eval, exact_raw, f1_raw, na_probs,
                                                   qid_to_has_ans)
            IN  IF IsRaised(r)
                THEN pc' = "raised" /\ ret' = r /\ UNCHANGED out_eval
                ELSE pc' = "return" /\ out_eval' = r.value /\ UNCHANGED ret
    /\ UNCHANGED <<pairVars, inputVars, qid_to_has_ans, exact_raw, f1_raw,
                   exact_thresh, f1_thresh, sweepVars, scores, na_prob_thresh>>

\* line 282
EvaluateReturn ==
    /\ pc = "return"
    /\ ret' = Ok(<<out_eval["exact"], out_eval["f1"], out_eval>>)
    /\ pc' = "returned"
    /\ UNCHANGED <<pairVars, inputVars, evalVars, sweepVars, scores, na_prob_thresh>>

NextEval ==
    \/ EvaluateSetUp
    \/ EvaluateRawScores
    \/ EvaluateThreshold
    \/ EvaluateOverall
    \/ EvaluateHasAns
    \/ EvaluateNoAns
    \/ EvaluatePRAnalysis
    \/ EvaluateReturn

SpecEval == InitEval /\ [][NextEval]_vars

Spec == SpecEval

(***************************************************************************)
(* Properties.                                                             *)
(***************************************************************************)
InPercentRange(v) == RLe(Zero, v) /\ RLe(v, Hundred)

\* the sum of the scores apply_no_ans_threshold gives at threshold t
RescoredTotal(t) ==
    LET r == apply_no_ans_threshold(scores, na_probs, qid_to_has_ans, t).ret
    IN  RSum(DOMAIN r.value, r.value)

\* the thresholds find_best_thresh can return (a probability of na_probs, or
\* the default 0.0), and one below every probability: "reject everything"
CandidateThresholds == Range(na_probs) \cup {Zero, Int2Rat(-1)}

EveryQuestionScored == DOMAIN scores = DOMAIN qid_to_has_ans

\* C1: find_best_thresh's best score, as a count, is the maximum over the
\* candidate thresholds of the total apply_no_ans_threshold gives, and the
\* returned best_thresh attains it.  Stated for the inputs in which every
\* question is scored, where the baseline counts scored questions only.
C1_SweepEqualsRescoring ==
    (pc = "returned" /\ EveryQuestionScored) =>
        LET best_count == RDiv(RMul(ret.value[1], Int2Rat(Cardinality(DOMAIN scores))),
                               Hundred)
        IN  /\ \A t \in CandidateThresholds : RLe(RescoredTotal(t), best_count)
            /\ \E t \in CandidateThresholds : RescoredTotal(t) = best_count
            /\ RescoredTotal(ret.value[2]) = best_count

MissingPrediction == \E q \in DOMAIN dataset : q \notin DOMAIN preds

\* C2: an evaluation run on a dataset with a question that has no prediction
\* does not fail: it returns a summary, and the question is in neither score
\* map.  Stated for the runs in which some question does have a prediction.
C2_MissingPredictionNotFatal ==
    (/\ pc \in {"returned", "raised"}
     /\ MissingPrediction
     /\ \E q \in DOMAIN dataset : q \in DOMAIN preds) =>
        /\ pc = "returned"
        /\ \A q \in DOMAIN dataset \ DOMAIN preds :
              q \notin DOMAIN exact_raw \cup DOMAIN f1_raw
                   \cup DOMAIN exact_thresh \cup DOMAIN f1_thresh

BestKeys == {"best_exact", "best_exact_thresh", "best_f1", "best_f1_thresh"}

\* C3: when na_probs_file is given, the summary evaluate returns has the keys
\* best_exact, best_exact_thresh, best_f1 and best_f1_thresh.
C3_BestKeysInSummary ==
    (pc = "returned" /\ na_probs_file # "None") => BestKeys \subseteq DOMAIN ret.value[3]

\* C4: apply_no_ans_threshold returns a dict with the ids of scores; an id whose
\* probability is strictly above the threshold gets 1.0 when the question is
\* no-answer and 0.0 when it is has-answer, any other id keeps its score; the
\* scores passed in are unchanged.
C4_ApplyThreshold ==
    [][pc = "apply_no_ans_threshold" =>
          /\ scores' = scores
          /\ pc' = "returned"
          /\ DOMAIN ret'.value = DOMAIN scores
          /\ \A q \in DOMAIN scores :
                ret'.value[q] =
                    IF RGt(na_probs[q], na_prob_thresh')
                    THEN (IF qid_to_has_ans[q] THEN Zero ELSE One)
                    ELSE scores[q]]_vars

C4_Witness ==
    /\ pc = "returned"
    /\ na_prob_thresh = <<1, 2>>
    /\ \E q, r, u \in DOMAIN scores :
          /\ na_probs[q] = One /\ ~qid_to_has_ans[q]
          /\ scores[q] = Zero /\ ret.value[q] = One
          /\ na_probs[r] = One /\ qid_to_has_ans[r]
          /\ scores[r] = One /\ ret.value[r] = Zero
          /\ na_probs[u] = <<1, 2>> /\ scores[u] = <<2, 3>> /\ ret.value[u] = <<2, 3>>

AllNoAnsAllEmpty ==
    \A q \in DOMAIN dataset :
        ~qid_to_has_ans[q] /\ q \in DOMAIN preds /\ preds[q] = Str_empty

\* C5 as first stated: on every input in which all questions are no-answer and
\* all predictions are empty, find_best_thresh returns (100.0, 0.0).
C5_Original ==
    (pc \in {"returned", "raised"} /\ AllNoAnsAllEmpty) =>
        (pc = "returned" /\ ret.value = <<Hundred, Zero>>)

\* C5: on every input with at least one question in which all questions are
\* no-answer and all predictions are empty, no step of the sweep betters the
\* running score, and find_best_thresh returns (100.0, 0.0).
C5_AllRejectBaseline ==
    (AllNoAnsAllEmpty /\ DOMAIN dataset # {}) =>
        /\ pc # "raised"
        /\ pc \in {"sweep", "returned"} =>
              /\ best_score = Int2Rat(NumNoAns(qid_to_has_ans))
              /\ best_thresh = Zero
        /\ pc = "returned" => ret.value = <<Hundred, Zero>>

C5_Witness ==
    /\ pc = "returned"
    /\ AllNoAnsAllEmpty
    /\ Cardinality(DOMAIN dataset) >= 2
    /\ \E q, r \in DOMAIN na_probs : na_probs[q] = <<1, 2>> /\ na_probs[r] = Zero
    /\ ret.value = <<Hundred, Zero>>

\* every has-answer question has score 1 and a smaller no-answer probability
\* than every no-answer question; there is a has-answer question
PerfectRanking ==
    /\ NumTruePos(qid_to_has_ans) >= 1
    /\ \A q \in DOMAIN qid_to_has_ans :
          qid_to_has_ans[q] =>
              /\ q \in DOMAIN scores /\ scores[q] = One
              /\ \A r \in DOMAIN qid_to_has_ans :
                    ~qid_to_has_ans[r] => RLt(na_probs[q], na_probs[r])

\* C6 as first stated: under a perfect ranking the average precision that
\* make_precision_recall_eval returns is 1.0.
C6_Original ==
    (pc \in {"returned", "raised"} /\ PerfectRanking) =>
        (pc = "returned" /\ ret.value["ap"] = One)

\* C6: under a perfect ranking make_precision_recall_eval returns ap = 100.0,
\* the average precision 1.0 as a percentage, whatever the ties within the
\* has-answer group and within the no-answer group.
C6_PerfectRankingAP ==
    (pc \in {"returned", "raised"} /\ PerfectRanking) =>
        (pc = "returned" /\ ret.value["ap"] = Hundred)

C6_Witness ==
    /\ pc = "returned"
    /\ PerfectRanking
    /\ \E q, r, u \in DOMAIN qid_to_has_ans :
          /\ q # r /\ qid_to_has_ans[q] /\ qid_to_has_ans[r] /\ na_probs[q] = na_probs[r]
          /\ ~qid_to_has_ans[u]
    /\ ret.value["ap"] = Hundred

PRKeys == {"pr_exact_ap", "pr_f1_ap", "pr_oracle_ap"}

\* C7: when no question has an answer, run_precision_recall_analysis leaves the
\* summary as it was, with none of pr_exact_ap, pr_f1_ap, pr_oracle_ap in it,
\* and raises nothing (it divides by num_true_pos nowhere).
C7_NoTruePosSkipsAnalysis ==
    [][(/\ pc = "pr_analysis"
        /\ na_probs_file # "None"
        /\ NumTruePos(qid_to_has_ans) = 0) =>
          /\ pc' = "return"
          /\ ret' = ret
          /\ out_eval' = out_eval
          /\ PRKeys \cap DOMAIN out_eval' = {}]_vars

C7_Witness ==
    /\ pc = "return"
    /\ na_probs_file # "None"
    /\ NumTruePos(qid_to_has_ans) = 0
    /\ Cardinality(DOMAIN qid_to_has_ans) >= 2
    /\ DOMAIN out_eval = {"exact", "f1", "total", "NoAns_exact", "NoAns_f1", "NoAns_total"}

C8_Totals ==
    /\ pc = "returned"
    /\ ret.value["total"] =
          IF qid_list.given /\ qid_list.ids # <<>>
          THEN Int2Rat(Len(qid_list.ids))
          ELSE Int2Rat(Cardinality(DOMAIN exact_raw))
    /\ InPercentRange(ret.value["exact"])
    /\ InPercentRange(ret.value["f1"])

\* C8 as first stated: for every pair of score maps and every id subset of
\* their keys make_eval_dict returns total = len(qid_list), or len(exact_scores)
\* without a subset, and exact and f1 in [0, 100].
C8_Original == pc \in {"returned", "raised"} => C8_Totals

\* C8: for every pair of score maps that are not empty and every id subset of
\* their keys make_eval_dict returns total = len(qid_list), or len(exact_scores)
\* without a subset (or with an empty one), and exact and f1 in [0, 100].
C8_EvalDictTotals ==
    (pc \in {"returned", "raised"} /\ DOMAIN exact_raw # {}) => C8_Totals

C8_Witness ==
    /\ pc = "returned"
    /\ Cardinality(DOMAIN exact_raw) = 3
    /\ qid_list.given /\ Len(qid_list.ids) = 2
    /\ ret.value["total"] = Int2Rat(2)
    /\ ret.value["exact"] = Int2Rat(50)
    /\ ret.value["f1"] = <<250, 3>>

\* C9: when the token sequence of either string is empty compute_f1 returns 1
\* if both are empty and 0 otherwise; f1("", "") = 1, and f1("", x) = f1(x, "")
\* = 0 for x with a token; the harmonic mean is reached only when both token
\* sequences are non-empty and share a token.
C9_EmptyTokensPolicy ==
    pc = "returned" =>
        LET g == get_tokens(a_gold)
            p == get_tokens(a_pred)
            f1 == ret.value.value
        IN  /\ (g = <<>> \/ p = <<>>) =>
                  f1 = IF g = <<>> /\ p = <<>> THEN One ELSE Zero
            /\ (a_gold = <<>> /\ a_pred = <<>>) => f1 = One
            /\ (a_gold = <<>> /\ p # <<>>) => f1 = Zero
            /\ (a_pred = <<>> /\ g # <<>>) => f1 = Zero
            /\ ret.value.path = "harmonic" =>
                  g # <<>> /\ p # <<>> /\ Range(g) \cap Range(p) # {}

C9_Witness ==
    /\ pc = "returned"
    /\ a_gold # <<>> /\ get_tokens(a_gold) = <<>>
    /\ get_tokens(a_pred) # <<>>
    /\ ret.value.value = Zero
    /\ ret.value.path = "empty"

\* C10: at every step of the sweep best_score is at least the baseline and at
\* most the number of scored questions, and the best_score_pct returned is in
\* [0, 100], also when a question of the has-answer map has no score.
C10_BestScoreBounds ==
    /\ pc \in {"sweep", "returned"} =>
          /\ RLe(Int2Rat(NumNoAns(qid_to_has_ans)), best_score)
          /\ RLe(best_score, Int2Rat(Cardinality(DOMAIN scores)))
    /\ pc = "returned" => InPercentRange(ret.value[1])

====
